---- MODULE Spec2Model ----
(***************************************************************************)
(* A model of smart_finance_tracker.py: the SQLite ledger store            *)
(* (FinanceDatabase), the text categorizer (ExpenseCategorizer) and the    *)
(* form handlers of FinanceTrackerGUI that call them.                      *)
(*                                                                         *)
(* Text is a sequence of one-character strings, so that SQLite's byte-wise *)
(* comparison of TEXT values, Python's str.lower() and float() can be      *)
(* computed character by character.  Amounts are counted in hundredths:    *)
(* 100 is 1.0 and 2550 is 25.5.  The amounts drawn here are multiples of   *)
(* 0.5, which a REAL holds and adds exactly.                               *)
(***************************************************************************)
EXTENDS Integers, Sequences, FiniteSets, TLC

VARIABLES
    db,                 \* the SQLite file: table name -> sequence of rows
    clock,              \* the latest CURRENT_TIMESTAMP SQLite has read
    call,               \* the last operation called, with its arguments
    df,                 \* the data frame the last query returned
    pkl,                \* the file expense_categorizer.pkl
    model,              \* ExpenseCategorizer.model
    ret,                \* what the last categorizer call returned or raised
    form,               \* the tk.StringVar fields of the GUI
    message,            \* the messagebox that is open, if any
    pending,            \* what the handler does once the messagebox returns
    expenses_tree,      \* the rows shown in the View Expenses table
    csv,                \* the file Export to CSV writes
    event,              \* the handler that ran last, with what it was given
    budget_calls        \* the (category, amount) pairs set_budget accepted

storeVars == <<db, clock, call, df>>
categorizerVars == <<pkl, model, ret>>
guiVars == <<form, message, pending, expenses_tree, csv, event, budget_calls>>
vars == <<storeVars, categorizerVars, guiVars>>

(***************************************************************************)
(* Bounds and input domains                                                *)
(***************************************************************************)
MaxExpenses == 2

\* Python's None, distinct from every text (its element is not a character).
None == <<"None">>

\* Code points of the characters the inputs are drawn from.
CharCode == [c \in {"-", ".", "0", "1", "2", "5", "A", "a", "x"} |->
               CASE c = "-" -> 45 [] c = "." -> 46 [] c = "0" -> 48
                 [] c = "1" -> 49 [] c = "2" -> 50 [] c = "5" -> 53
                 [] c = "A" -> 65 [] c = "a" -> 97 [] c = "x" -> 120]

\* Dates in SQLite's text order: "1" < "12" < "2".
D1 == <<"1">>
D12 == <<"1", "2">>
D2 == <<"2">>
\* What a caller may pass as start_date / end_date.
QueryArgs == {None, <<>>, D1, D2}

\* The argument tuples add_expense is called with.  payment_arg is the
\* optional argument payment_method: <<>> when not passed, <<m>> when passed.
Expense(date, amount, category, payment_arg) ==
    [date |-> date, amount |-> amount, description |-> <<"a">>,
     category |-> category, payment_arg |-> payment_arg]
ExpenseInputs ==
    {Expense(D1, 100, "Food & Dining", <<>>),
     Expense(D1, 200, "Travel", <<"Credit Card">>),
     Expense(D12, 200, "Food & Dining", <<"Credit Card">>),
     Expense(D12, 100, "Travel", <<>>),
     Expense(D2, 100, "Food & Dining", <<"Credit Card">>),
     Expense(D2, 200, "Travel", <<>>)}
\* The values CURRENT_TIMESTAMP takes.
Times == {1, 2}

(***************************************************************************)
(* FinanceDatabase                                                         *)
(***************************************************************************)
Min(a, b) == IF a <= b THEN a ELSE b

\* SQLite's comparison of two TEXT values under the BINARY collation.
LexLE(a, b) ==
    \/ /\ Len(a) <= Len(b)
       /\ \A i \in 1..Len(a) : a[i] = b[i]
    \/ \E i \in 1..Min(Len(a), Len(b)) :
          /\ CharCode[a[i]] < CharCode[b[i]]
          /\ \A j \in 1..(i - 1) : a[j] = b[j]

\* A faulty variant: the test is `is not None`, so an empty text counts as
\* a bound.
IsNotNone(x) == x # None

\* Python truthiness of an optional text argument.
Truthy(x) == x # None /\ x # <<>>

\* A faulty variant: DROP TABLE IF EXISTS t; CREATE TABLE t (...)
DropAndCreateTable(d, t) ==
    [u \in DOMAIN d \cup {t} |-> IF u = t THEN <<>> ELSE d[u]]

\* CREATE TABLE IF NOT EXISTS t (...)
CreateTableIfNotExists(d, t) ==
    IF t \in DOMAIN d THEN d
    ELSE [u \in DOMAIN d \cup {t} |-> IF u = t THEN <<>> ELSE d[u]]

TableNames == {"expenses", "budgets", "income"}

init_database(d) ==
    CreateTableIfNotExists(
        CreateTableIfNotExists(
            CreateTableIfNotExists(d, "expenses"), "budgets"), "income")

\* The file before the first start: no table.
NoTables == [t \in {} |-> <<>>]

\* A faulty variant: INSERT OR REPLACE with the identifier of the last row.
InsertOrReplaceExpense(rows, date, amount, description, category, payment_method, now) ==
    LET row == [id |-> IF rows = <<>> THEN 1 ELSE Len(rows),
                date |-> date, amount |-> amount, description |-> description,
                category |-> category, payment_method |-> payment_method,
                created_at |-> now]
    IN  IF rows = <<>> THEN <<row>> ELSE [rows EXCEPT ![Len(rows)] = row]

\* INSERT INTO expenses (date, amount, description, category, payment_method)
InsertExpense(rows, date, amount, description, category, payment_method, now) ==
    Append(rows, [id |-> Len(rows) + 1,
                  date |-> date,
                  amount |-> amount,
                  description |-> description,
                  category |-> category,
                  payment_method |-> payment_method,
                  created_at |-> now])

\* A faulty variant: payment_method is not handed to the INSERT, so the
\* column default applies.
add_expense_default_payment(d, date, amount, description, category, payment_arg, now) ==
    [d EXCEPT !["expenses"] =
        InsertExpense(@, date, amount, description, category, "Cash", now)]

\* def add_expense(self, date, amount, description, category, payment_method='Cash')
add_expense(d, date, amount, description, category, payment_arg, now) ==
    [d EXCEPT !["expenses"] =
        InsertExpense(@, date, amount, description, category,
                      IF payment_arg = <<>> THEN "Cash" ELSE payment_arg[1], now)]

\* A faulty variant: WHERE date >= ? AND date < ?
BetweenExclusive(row, start_date, end_date) ==
    /\ LexLE(start_date, row.date)
    /\ LexLE(row.date, end_date)
    /\ row.date # end_date

\* WHERE date BETWEEN ? AND ?
Between(row, start_date, end_date) ==
    LexLE(start_date, row.date) /\ LexLE(row.date, end_date)

\* The rows the query selects: filtered only if both bounds are truthy.
SelectExpenses(rows, start_date, end_date) ==
    IF Truthy(start_date) /\ Truthy(end_date)
    THEN SelectSeq(rows, LAMBDA r : Between(r, start_date, end_date))
    ELSE rows

Arrangements(n) ==
    {p \in [1..n -> 1..n] : \A i, j \in 1..n : p[i] = p[j] => i = j}

\* A faulty variant: ORDER BY date (ascending).
OrderByDateAsc(rows) ==
    {s \in {[i \in 1..Len(rows) |-> rows[p[i]]] : p \in Arrangements(Len(rows))} :
        \A i \in 1..(Len(s) - 1) : LexLE(s[i].date, s[i + 1].date)}

\* ORDER BY date DESC: every arrangement of the rows with non-increasing
\* dates (SQL leaves the order of rows with equal dates open).
OrderByDateDesc(rows) ==
    {s \in {[i \in 1..Len(rows) |-> rows[p[i]]] : p \in Arrangements(Len(rows))} :
        \A i \in 1..(Len(s) - 1) : LexLE(s[i + 1].date, s[i].date)}

\* The data frames get_expenses may return.
get_expenses(d, start_date, end_date) ==
    OrderByDateDesc(SelectExpenses(d["expenses"], start_date, end_date))

RECURSIVE SumAmounts(_)
SumAmounts(rows) ==
    IF rows = <<>> THEN 0 ELSE Head(rows).amount + SumAmounts(Tail(rows))

\* SELECT category, SUM(amount) as total ... GROUP BY category
GroupByCategory(rows) ==
    {[category |-> c,
      total |-> SumAmounts(SelectSeq(rows, LAMBDA r : r.category = c))] :
        c \in {rows[i].category : i \in 1..Len(rows)}}

\* A faulty variant: ORDER BY total (ascending).
OrderByTotalAsc(groups) ==
    {s \in [1..Cardinality(groups) -> groups] :
        /\ \A i, j \in 1..Cardinality(groups) : s[i] = s[j] => i = j
        /\ \A i \in 1..(Cardinality(groups) - 1) : s[i].total <= s[i + 1].total}

\* ORDER BY total DESC: every arrangement of the groups with non-increasing
\* totals.
OrderByTotalDesc(groups) ==
    {s \in [1..Cardinality(groups) -> groups] :
        /\ \A i, j \in 1..Cardinality(groups) : s[i] = s[j] => i = j
        /\ \A i \in 1..(Cardinality(groups) - 1) : s[i].total >= s[i + 1].total}

\* The data frames get_category_totals may return.
get_category_totals(d, start_date, end_date) ==
    OrderByTotalDesc(
        GroupByCategory(SelectExpenses(d["expenses"], start_date, end_date)))

(***************************************************************************)
(* Store operations                                                        *)
(***************************************************************************)
InitDatabase ==
    /\ db' = init_database(db)
    /\ call' = [op |-> "init_database", before |-> db, args |-> <<>>]
    /\ df' = <<>>
    /\ UNCHANGED <<clock, categorizerVars, guiVars>>

AddExpense ==
    \E e \in ExpenseInputs, now \in Times :
        /\ Len(db["expenses"]) < MaxExpenses
        /\ now >= clock
        /\ clock' = now
        /\ db' = add_expense(db, e.date, e.amount, e.description, e.category,
                             e.payment_arg, now)
        /\ call' = [op |-> "add_expense", before |-> db, args |-> e]
        /\ df' = <<>>
        /\ UNCHANGED <<categorizerVars, guiVars>>

GetExpenses ==
    \E start_date \in QueryArgs, end_date \in QueryArgs :
        \E result \in get_expenses(db, start_date, end_date) :
            /\ df' = result
            /\ call' = [op |-> "get_expenses", before |-> db,
                        args |-> <<start_date, end_date>>]
            /\ UNCHANGED <<db, clock, categorizerVars, guiVars>>

GetCategoryTotals ==
    \E start_date \in QueryArgs, end_date \in QueryArgs :
        \E result \in get_category_totals(db, start_date, end_date) :
            /\ df' = result
            /\ call' = [op |-> "get_category_totals", before |-> db,
                        args |-> <<start_date, end_date>>]
            /\ UNCHANGED <<db, clock, categorizerVars, guiVars>>

NoCall == [op |-> "none", before |-> init_database(NoTables), args |-> <<>>]

StoreInit ==
    /\ db = init_database(NoTables)
    /\ clock = 1
    /\ call = NoCall
    /\ df = <<>>

(***************************************************************************)
(* ExpenseCategorizer                                                      *)
(***************************************************************************)
\* confidence > 0.3, with probabilities counted in thousandths
Threshold == 300

\* self.categories
Categories ==
    {"Food & Dining", "Transportation", "Shopping", "Entertainment",
     "Bills & Utilities", "Healthcare", "Education", "Travel",
     "Personal Care", "Home & Garden", "Miscellaneous"}

\* The description upload_receipt fills in: 'Grocery Store Purchase'.
ReceiptDescription ==
    <<"G", "r", "o", "c", "e", "r", "y", " ", "S", "t", "o", "r", "e", " ",
      "P", "u", "r", "c", "h", "a", "s", "e">>

\* str.lower(), character by character
LowerChar(c) ==
    CASE c = "A" -> "a" [] c = "G" -> "g" [] c = "P" -> "p" [] c = "S" -> "s"
      [] OTHER -> c
Lower(text) == [i \in 1..Len(text) |-> LowerChar(text[i])]

\* The texts a pipeline is asked about.
Texts == {<<>>, <<"a">>, <<"A">>, Lower(ReceiptDescription)}
\* What is handed to categorize as description: texts, and None for a value
\* that is no string.
DescriptionArgs == {<<>>, <<"a">>, <<"A">>, ReceiptDescription, None}

\* What model.predict / model.predict_proba give for one text: they raise,
\* or they give the predicted label and the highest class probability.
Raises == [raises |-> TRUE, label |-> "", conf |-> 0]
Predicts(label, conf) == [raises |-> FALSE, label |-> label, conf |-> conf]
Outcomes ==
    {Raises, Predicts("Travel", Threshold), Predicts("Travel", Threshold + 1)}

\* self.model = None.  The field pipeline is the truth value of the object
\* (`if self.model:`, line 187).
NoModel == [pipeline |-> FALSE]
\* A truthy object, by what its predict and predict_proba answer for each
\* text; an object that is no pipeline raises for every text.
Pipeline(table) == [pipeline |-> TRUE, table |-> table]
\* The objects that are falsy: None, 0 and the empty list.
FalsyObjects ==
    {NoModel, [pipeline |-> FALSE, object |-> "0"],
     [pipeline |-> FALSE, object |-> "[]"]}

\* The pipeline create_initial_model fits.  <<>>, 'a' and 'A' hold no word
\* of the 28 examples (a token has two characters or more), so the
\* classifier answers with the class priors: 'Food & Dining' is the first
\* class with 4 of the 28 examples, 4/28 = 0.1428...  For 'grocery store
\* purchase' the highest class probability is 0.2056, of 'Food & Dining'.
Bundled ==
    Pipeline([t \in Texts |->
                 IF t = Lower(ReceiptDescription)
                 THEN Predicts("Food & Dining", 206)
                 ELSE Predicts("Food & Dining", 143)])

\* The truthy objects a pickle file may hold.
Pipelines == {Bundled} \cup {Pipeline(f) : f \in [Texts -> Outcomes]}
\* Every object pickle.load may give: a file that loads need not hold a
\* pipeline.
Unpickled == Pipelines \cup FalsyObjects

\* The file expense_categorizer.pkl
Absent == [state |-> "absent"]
Corrupt == [state |-> "corrupt"]
Pickled(m) == [state |-> "pickle", object |-> m]

\* What open(..., 'wb') and pickle.dump do in save_model.
SaveOutcomes == {"saved", "open fails", "dump fails"}

\* def save_model(self): the file afterwards
save_model(file, m, outcome) ==
    CASE outcome = "saved"      -> Pickled(m)
      [] outcome = "open fails" -> file
      [] outcome = "dump fails" -> Corrupt

\* def create_initial_model(self): the model and the file afterwards
create_initial_model(file, outcome) ==
    [model |-> Bundled, pkl |-> save_model(file, Bundled, outcome)]

\* def load_or_create_model(self): the model and the file afterwards
load_or_create_model(file, outcome) ==
    CASE file.state = "pickle"  -> [model |-> file.object, pkl |-> file]
      [] file.state = "absent"  -> create_initial_model(file, outcome)
      [] file.state = "corrupt" -> create_initial_model(file, outcome)

Returns(value) == [raised |-> FALSE, value |-> value]
Raised == [raised |-> TRUE, value |-> ""]

\* The try block of categorize (lines 187-190); Returns("") stands for
\* falling through the if.
categorize_try(m, description) ==
    IF m.pipeline
    THEN IF description = None THEN Raised
         ELSE LET out == m.table[Lower(description)] IN
              IF out.raises THEN Raised
              ELSE Returns(IF out.conf > Threshold THEN out.label
                           ELSE "Miscellaneous")
    ELSE Returns("")

\* A faulty variant: the exception is not caught.
categorize_uncaught(m, description) ==
    LET r == categorize_try(m, description) IN
    IF ~r.raised /\ r.value = "" THEN Returns("Miscellaneous") ELSE r

\* A faulty variant: confidence >= 0.3.
categorize_inclusive(m, description) ==
    IF m.pipeline /\ description # None
    THEN LET out == m.table[Lower(description)] IN
         IF out.raises THEN Returns("Miscellaneous")
         ELSE Returns(IF out.conf >= Threshold THEN out.label
                      ELSE "Miscellaneous")
    ELSE Returns("Miscellaneous")

\* def categorize(self, description)
categorize(m, description) ==
    LET r == categorize_try(m, description) IN
    IF r.raised \/ r.value = "" THEN Returns("Miscellaneous") ELSE r

NoRet == [op |-> "none"]

\* ExpenseCategorizer(): __init__ sets model to None and calls
\* load_or_create_model.
Construct ==
    \E outcome \in SaveOutcomes :
        LET r == load_or_create_model(pkl, outcome) IN
        /\ ret.op \in {"none", "exit"}
        /\ model' = r.model
        /\ pkl' = r.pkl
        /\ ret' = [op |-> "__init__", file |-> pkl, save |-> outcome,
                   written |-> r.pkl]
        /\ UNCHANGED <<storeVars, guiVars>>

Categorize ==
    \E description \in DescriptionArgs :
        /\ ret' = [op |-> "categorize", model |-> model, arg |-> description,
                   result |-> categorize(model, description)]
        /\ UNCHANGED <<pkl, model, storeVars, guiVars>>

\* The categorizer is called once it is constructed.
CategorizeConstructed ==
    /\ ret.op \in {"__init__", "categorize"}
    /\ Categorize

\* The process ends; the file stays.
Exit ==
    /\ ret.op \in {"__init__", "categorize"}
    /\ model' = NoModel
    /\ ret' = [op |-> "exit"]
    /\ UNCHANGED <<pkl, storeVars, guiVars>>

\* The file is deleted, damaged or replaced from outside the program.
FileContents == {Absent, Corrupt} \cup {Pickled(m) : m \in Unpickled}

EnvWriteFile ==
    /\ \E f \in FileContents : pkl' = f
    /\ UNCHANGED <<model, ret, storeVars, guiVars>>

(***************************************************************************)
(* FinanceTrackerGUI                                                       *)
(***************************************************************************)
\* The dates the form starts with: today, and 30 days before today.
Today == D2
ThirtyDaysAgo == D1

\* The tk.StringVar fields as create_widgets leaves them.
InitialForm ==
    [date_var |-> Today, amount_var |-> <<>>, description_var |-> <<>>,
     category_var |-> "", payment_var |-> "Cash",
     start_date_var |-> ThirtyDaysAgo, end_date_var |-> Today,
     budget_category_var |-> "", budget_amount_var |-> <<>>]

\* What the user types into the fields, or picks in the comboboxes.
DateTexts == {<<>>, Today}
AmountTexts == {<<>>, <<"x">>, <<"0">>, <<"-", "0">>, <<"1">>}
DescriptionTexts == {<<>>, <<"A">>}
CategoryTexts == {"", "Travel"}
PaymentTexts == {"Cash", "Credit Card"}
FromTexts == {<<>>, ThirtyDaysAgo}
ToTexts == {ThirtyDaysAgo, Today}
BudgetCategoryTexts == {"", "Travel", "Shopping"}
BudgetAmountTexts == {<<>>, <<"x">>, <<"1">>, <<"2">>, <<"-", "0">>}

\* The fields of each tab, with the texts each is given.
ExpenseFieldTexts ==
    [date_var |-> DateTexts, amount_var |-> AmountTexts,
     description_var |-> DescriptionTexts, category_var |-> CategoryTexts,
     payment_var |-> PaymentTexts]
FilterFieldTexts == [start_date_var |-> FromTexts, end_date_var |-> ToTexts]
BudgetFieldTexts ==
    [budget_category_var |-> BudgetCategoryTexts,
     budget_amount_var |-> BudgetAmountTexts]

\* A messagebox: its text is a sequence of pieces, each a string.
NoMessage == [kind |-> "none", title |-> "", text |-> <<>>]
showerror(title, text) == [kind |-> "error", title |-> title, text |-> text]
showinfo(title, text) == [kind |-> "info", title |-> title, text |-> text]
showwarning(title, text) == [kind |-> "warning", title |-> title, text |-> text]

NoEvent == [handler |-> "none"]

Digit == [c \in {"0", "1", "2", "5"} |-> CharCode[c] - 48]

RECURSIVE DigitsValue(_)
DigitsValue(text) ==
    IF text = <<>> THEN 0
    ELSE 10 * DigitsValue(SubSeq(text, 1, Len(text) - 1)) + Digit[text[Len(text)]]

AllDigits(text) == \A i \in 1..Len(text) : text[i] \in DOMAIN Digit

\* float(text) for texts over "-", ".", digits and letters: an optional
\* minus sign, then digits with at most one point among them and one digit
\* at least; anything else raises ValueError.  value is the number in
\* hundredths (the texts given here have two digits after the point at
\* most) and negative is its sign bit: float('-0') is -0.0.
float(text) ==
    LET negative == text # <<>> /\ text[1] = "-"
        body == IF negative THEN Tail(text) ELSE text
        points == {i \in 1..Len(body) : body[i] = "."}
        point == IF points = {} THEN Len(body) + 1
                 ELSE CHOOSE i \in points : TRUE
        whole == SubSeq(body, 1, point - 1)
        fraction == SubSeq(body, point + 1, Len(body))
        tenths == IF Len(fraction) >= 1 THEN Digit[fraction[1]] ELSE 0
        hundredths == IF Len(fraction) >= 2 THEN Digit[fraction[2]] ELSE 0
        magnitude == 100 * DigitsValue(whole) + 10 * tenths + hundredths
    IN  IF /\ Cardinality(points) <= 1
           /\ AllDigits(whole) /\ AllDigits(fraction)
           /\ Len(whole) + Len(fraction) >= 1
        THEN [ok |-> TRUE, negative |-> negative,
              value |-> IF negative THEN 0 - magnitude ELSE magnitude]
        ELSE [ok |-> FALSE, negative |-> FALSE, value |-> 0]

DigitChar == [n \in 0..9 |->
                CASE n = 0 -> "0" [] n = 1 -> "1" [] n = 2 -> "2" [] n = 3 -> "3"
                  [] n = 4 -> "4" [] n = 5 -> "5" [] n = 6 -> "6" [] n = 7 -> "7"
                  [] n = 8 -> "8" [] n = 9 -> "9"]

RECURSIVE Decimal(_)
Decimal(n) ==
    IF n < 10 THEN <<DigitChar[n]>>
    ELSE Decimal(n \div 10) \o <<DigitChar[n % 10]>>

Abs(n) == IF n < 0 THEN 0 - n ELSE n

\* f"${x:.2f}" for a float of the given sign bit and magnitude (in
\* hundredths), character by character: -0.0 gives '$-0.00'.
FormatFloat(negative, magnitude) ==
    <<"$">> \o (IF negative THEN <<"-">> ELSE <<>>)
            \o Decimal(magnitude \div 100)
            \o <<".", DigitChar[(magnitude % 100) \div 10],
                 DigitChar[magnitude % 10]>>

\* f"${expense['amount']:.2f}" for a stored amount
FormatAmount(amount) == FormatFloat(amount < 0, Abs(amount))

\* str(x) of a float, as to_csv writes it: 1.0, 25.5, 0.25
ReprFloat(amount) ==
    (IF amount < 0 THEN <<"-">> ELSE <<>>)
        \o Decimal(Abs(amount) \div 100) \o <<".">>
        \o (IF Abs(amount) % 10 = 0
            THEN <<DigitChar[(Abs(amount) % 100) \div 10]>>
            ELSE <<DigitChar[(Abs(amount) % 100) \div 10],
                   DigitChar[Abs(amount) % 10]>>)

\* A faulty variant: the category is not among the required fields.
all_required_but_category(date, amount, description, category) ==
    date # <<>> /\ amount # 0 /\ description # <<>>

\* all([date, amount, description, category])
all_required(date, amount, description, category) ==
    date # <<>> /\ amount # 0 /\ description # <<>> /\ category # ""

\* The rows refresh_expenses_table inserts for a data frame.
TreeRows(frame) ==
    [i \in 1..Len(frame) |->
        <<frame[i].date, FormatAmount(frame[i].amount), frame[i].description,
          frame[i].category, frame[i].payment_method>>]

\* def add_expense(self) up to the messagebox it opens: what it reports,
\* whether it calls the store, the store and the fields by then, and what
\* is left to do once the messagebox returns.
gui_add_expense(f, d, now) ==
    LET amount == float(f.amount_var) IN
    IF ~amount.ok
    THEN [message |-> showerror("Error", <<"Please enter a valid amount">>),
          added |-> FALSE, db |-> d, form |-> f, pending |-> "return"]
    ELSE IF ~all_required(f.date_var, amount.value, f.description_var,
                          f.category_var)
    THEN [message |-> showerror("Error", <<"Please fill all required fields">>),
          added |-> FALSE, db |-> d, form |-> f, pending |-> "return"]
    ELSE [message |-> showinfo("Success", <<"Expense added successfully!">>),
          added |-> TRUE,
          db |-> add_expense(d, f.date_var, amount.value, f.description_var,
                             f.category_var, <<f.payment_var>>, now),
          form |-> [f EXCEPT !.amount_var = <<>>, !.description_var = <<>>,
                             !.category_var = ""],
          pending |-> "refresh_data"]

\* The user changes one field of a tab.  A messagebox is modal: while one
\* is open no field can be edited and no button pressed.
EditFields(texts) ==
    /\ message = NoMessage
    /\ \E field \in DOMAIN texts :
          \E text \in texts[field] :
              /\ text # form[field]
              /\ form' = [form EXCEPT ![field] = text]
    /\ event' = NoEvent
    /\ UNCHANGED <<message, pending, expenses_tree, csv, budget_calls,
                   storeVars, categorizerVars>>

\* The fields of the Add Expense tab.
EditExpenseForm == EditFields(ExpenseFieldTexts)

\* The From and To fields of the View Expenses tab.
EditFilter == EditFields(FilterFieldTexts)

\* The fields of the Budget tab.
EditBudgetForm == EditFields(BudgetFieldTexts)

\* def refresh_data(self): refresh_expenses_table and refresh_analytics
\* query the store with the two filter fields.
refresh_data(table, totals) ==
    /\ table \in get_expenses(db', form.start_date_var, form.end_date_var)
    /\ totals \in get_category_totals(db', form.start_date_var,
                                      form.end_date_var)
    /\ expenses_tree' = TreeRows(table)
    /\ call' = [op |-> "get_category_totals", before |-> db',
                args |-> <<form.start_date_var, form.end_date_var>>]
    /\ df' = totals

\* The Refresh button.
RefreshData ==
    /\ message = NoMessage
    /\ db' = db
    /\ \E table \in get_expenses(db, form.start_date_var, form.end_date_var),
          totals \in get_category_totals(db, form.start_date_var,
                                         form.end_date_var) :
            refresh_data(table, totals)
    /\ event' = [handler |-> "refresh_data"]
    /\ UNCHANGED <<clock, form, message, pending, csv, budget_calls,
                   categorizerVars>>

\* The Add Expense button, up to the messagebox: the row is committed and
\* the fields are cleared before showinfo opens, the table is refreshed
\* only after it returns.
GuiAddExpense ==
    \E now \in Times :
        LET r == gui_add_expense(form, db, now) IN
        /\ message = NoMessage
        /\ now >= clock
        /\ r.added => Len(db["expenses"]) < MaxExpenses
        /\ db' = r.db
        /\ form' = r.form
        /\ message' = r.message
        /\ pending' = r.pending
        /\ event' = [handler |-> "add_expense", form |-> form, db |-> db,
                     added |-> r.added]
        /\ IF r.added
           THEN /\ clock' = now
                /\ call' = [op |-> "add_expense", before |-> db,
                            args |-> [date |-> form.date_var,
                                      amount |-> float(form.amount_var).value,
                                      description |-> form.description_var,
                                      category |-> form.category_var,
                                      payment_arg |-> <<form.payment_var>>]]
                /\ df' = <<>>
           ELSE UNCHANGED <<clock, call, df>>
        /\ UNCHANGED <<expenses_tree, csv, budget_calls, categorizerVars>>

\* The Auto Categorize button: the category is set before the messagebox
\* opens.  With an empty description the handler does nothing.
AutoCategorize ==
    /\ message = NoMessage
    /\ form.description_var # <<>>
    /\ LET r == categorize(model, form.description_var) IN
       /\ ~r.raised
       /\ form' = [form EXCEPT !.category_var = r.value]
       /\ message' = showinfo("Auto Categorization",
                            <<"Suggested category: ", r.value>>)
       /\ ret' = [op |-> "categorize", model |-> model,
                  arg |-> form.description_var, result |-> r]
    /\ pending' = "return"
    /\ event' = [handler |-> "auto_categorize"]
    /\ UNCHANGED <<expenses_tree, csv, budget_calls, pkl, model, storeVars>>

\* The amount upload_receipt fills in: '25.50'.
ReceiptAmount == <<"2", "5", ".", "5", "0">>

\* The messagebox of upload_receipt.
ReceiptMessage ==
    showinfo("Receipt Processing",
             <<"Receipt processed! Extracted data:\n\nAmount: $25.50\nDescription: Grocery Store Purchase\nDate: ">>
                 \o Today)

\* The fields upload_receipt sets once its messagebox has returned.
fill_receipt(f) ==
    [f EXCEPT !.amount_var = ReceiptAmount,
              !.description_var = ReceiptDescription,
              !.category_var = "Food & Dining"]

\* The Upload Receipt button with a file chosen, up to the messagebox.
\* With no file chosen the handler does nothing.
UploadReceipt ==
    /\ message = NoMessage
    /\ message' = ReceiptMessage
    /\ pending' = "fill_receipt"
    /\ event' = [handler |-> "upload_receipt"]
    /\ UNCHANGED <<form, expenses_tree, csv, budget_calls, storeVars,
                   categorizerVars>>

\* The file the user names in the Export dialog, and what becomes of the
\* export once there are rows: the dialog is cancelled, the file is
\* written, or to_csv raises before it writes.
ExportPath == "expenses.csv"
ExportOutcomes == {"cancelled", "written", "to_csv raises"}

NoCsv == [state |-> "absent"]

\* expenses_df.to_csv(file_path, index=False): the header and one line for
\* each row of the frame, in its order.
to_csv(frame) ==
    [state |-> "written",
     header |-> <<"id", "date", "amount", "description", "category",
                  "payment_method", "created_at">>,
     lines |-> [i \in 1..Len(frame) |->
                   [id |-> Decimal(frame[i].id),
                    date |-> frame[i].date,
                    amount |-> ReprFloat(frame[i].amount),
                    description |-> frame[i].description,
                    category |-> frame[i].category,
                    payment_method |-> frame[i].payment_method,
                    created_at |-> frame[i].created_at]]]

\* def export_to_csv(self), given the frame get_expenses returned: the
\* messagebox it opens, if any, and the file afterwards.
export_to_csv(frame, outcome, file) ==
    IF frame = <<>>
    THEN [message |-> showwarning("Warning", <<"No data to export">>),
          csv |-> file]
    ELSE IF outcome = "written"
    THEN [message |-> showinfo("Success",
                               <<"Data exported to ", ExportPath>>),
          csv |-> to_csv(frame)]
    ELSE [message |-> NoMessage, csv |-> file]

\* The Export to CSV button.
ExportToCsv ==
    /\ message = NoMessage
    /\ \E table \in get_expenses(db, form.start_date_var, form.end_date_var),
          outcome \in ExportOutcomes :
            LET r == export_to_csv(table, outcome, csv) IN
            /\ message' = r.message
            /\ csv' = r.csv
            /\ df' = table
    /\ call' = [op |-> "get_expenses", before |-> db,
                args |-> <<form.start_date_var, form.end_date_var>>]
    /\ pending' = "return"
    /\ event' = [handler |-> "export_to_csv"]
    /\ UNCHANGED <<db, clock, form, expenses_tree, budget_calls,
                   categorizerVars>>

\* def set_budget(self) up to the messagebox it opens: what it reports,
\* whether the amount was accepted, and what is left to do once the
\* messagebox returns.  It calls no method of the store.
gui_set_budget(f) ==
    LET amount == float(f.budget_amount_var) IN
    IF f.budget_category_var = "" \/ f.budget_amount_var = <<>>
    THEN [message |-> showerror("Error", <<"Please fill all fields">>),
          accepted |-> FALSE, pending |-> "return"]
    ELSE IF ~amount.ok
    THEN [message |-> showerror("Error", <<"Please enter a valid amount">>),
          accepted |-> FALSE, pending |-> "return"]
    ELSE [message |-> showinfo("Success",
                               <<"Budget set for ", f.budget_category_var,
                                 ": ">> \o FormatFloat(amount.negative,
                                                       Abs(amount.value))),
          accepted |-> TRUE, pending |-> "clear_budget"]

\* The fields set_budget clears once its messagebox has returned.
clear_budget(f) ==
    [f EXCEPT !.budget_category_var = "", !.budget_amount_var = <<>>]

MaxBudgetCalls == 2

\* The Set Budget button, up to the messagebox.
SetBudget ==
    LET r == gui_set_budget(form) IN
    /\ message = NoMessage
    /\ r.accepted => Len(budget_calls) < MaxBudgetCalls
    /\ message' = r.message
    /\ pending' = r.pending
    /\ event' = [handler |-> "set_budget", form |-> form]
    /\ budget_calls' =
          IF r.accepted
          THEN Append(budget_calls,
                      [category |-> form.budget_category_var,
                       amount |-> float(form.budget_amount_var).value])
          ELSE budget_calls
    /\ UNCHANGED <<form, expenses_tree, csv, storeVars, categorizerVars>>

\* The user closes the messagebox: the handler that opened it goes on from
\* the call and runs to its end.
CloseDialog ==
    /\ message # NoMessage
    /\ message' = NoMessage
    /\ pending' = "return"
    /\ event' = NoEvent
    /\ CASE pending = "refresh_data" ->
              /\ db' = db
              /\ \E table \in get_expenses(db, form.start_date_var,
                                           form.end_date_var),
                    totals \in get_category_totals(db, form.start_date_var,
                                                   form.end_date_var) :
                      refresh_data(table, totals)
              /\ UNCHANGED <<clock, form>>
         [] pending = "fill_receipt" ->
              /\ form' = fill_receipt(form)
              /\ UNCHANGED <<storeVars, expenses_tree>>
         [] pending = "clear_budget" ->
              /\ form' = clear_budget(form)
              /\ UNCHANGED <<storeVars, expenses_tree>>
         [] OTHER ->
              UNCHANGED <<form, storeVars, expenses_tree>>
    /\ UNCHANGED <<csv, budget_calls, categorizerVars>>

CategorizerInit ==
    /\ pkl = Absent
    /\ model = NoModel
    /\ ret = NoRet

GuiInit ==
    /\ form = InitialForm
    /\ message = NoMessage
    /\ pending = "return"
    /\ expenses_tree = <<>>
    /\ csv = NoCsv
    /\ event = NoEvent
    /\ budget_calls = <<>>

RestInit == CategorizerInit /\ GuiInit

Init == StoreInit /\ RestInit

Next == InitDatabase \/ AddExpense \/ GetExpenses \/ GetCategoryTotals

Spec == Init /\ [][Next]_vars

\* The categorizer over the runs of the program.
NextCategorizer == Construct \/ CategorizeConstructed \/ Exit \/ EnvWriteFile

SpecCategorizer == Init /\ [][NextCategorizer]_vars

\* categorize as a function of self.model and description.
InitCategorize ==
    /\ StoreInit /\ GuiInit
    /\ pkl = Absent
    /\ model \in Unpickled
    /\ ret = NoRet

SpecCategorize == InitCategorize /\ [][Categorize]_vars

\* The window once FinanceTrackerGUI.__init__ has run on a new directory.
InitGui ==
    /\ StoreInit /\ GuiInit
    /\ pkl = Pickled(Bundled)
    /\ model = Bundled
    /\ ret = [op |-> "__init__", file |-> Absent, save |-> "saved",
              written |-> Pickled(Bundled)]

\* The Add Expense tab, with the fields typed in.
NextGui == EditExpenseForm \/ GuiAddExpense \/ AutoCategorize \/ CloseDialog

SpecGui == InitGui /\ [][NextGui]_vars

\* The View Expenses tab, over the expenses added from receipts.
NextView ==
    \/ UploadReceipt \/ GuiAddExpense \/ CloseDialog
    \/ EditFilter \/ RefreshData \/ ExportToCsv

SpecView == InitGui /\ [][NextView]_vars

\* The Budget tab.
NextBudget == EditBudgetForm \/ SetBudget \/ CloseDialog

SpecBudget == InitGui /\ [][NextBudget]_vars

\* The whole window: every handler and every field.
NextWindow == NextGui \/ NextView \/ NextBudget

SpecWindow == InitGui /\ [][NextWindow]_vars

(***************************************************************************)
(* Properties of the ledger store                                          *)
(***************************************************************************)
Range(s) == {s[i] : i \in 1..Len(s)}

Expenses == db["expenses"]
ExpensesBefore == call.before["expenses"]

\* start <= d <= end in text order, both bounds being texts.
InRange(d, start, end) == LexLE(start, d) /\ LexLE(d, end)

\* C1: after add_expense(date, amount, description, category[, payment
\* method]), every get_expenses whose range covers the date returns exactly
\* one record more than it returned before the call, and that record carries
\* the inputs (payment method 'Cash' when none was passed).
AddExpenseThenGetExpenses ==
    call.op = "add_expense" =>
        \A start \in QueryArgs \ {None}, end \in QueryArgs \ {None} :
            InRange(call.args.date, start, end) =>
                \A b \in get_expenses(call.before, start, end),
                   a \in get_expenses(db, start, end) :
                    /\ Len(a) = Len(b) + 1
                    /\ Range(b) \subseteq Range(a)
                    /\ \E r \in Range(a) \ Range(b) :
                          /\ r.date = call.args.date
                          /\ r.amount = call.args.amount
                          /\ r.description = call.args.description
                          /\ r.category = call.args.category
                          /\ r.payment_method =
                                IF call.args.payment_arg = <<>> THEN "Cash"
                                ELSE call.args.payment_arg[1]

\* An expense was added without a payment method to a store that holds a
\* record outside a range covering the new date.
AddExpenseThenGetExpensesReached ==
    /\ call.op = "add_expense"
    /\ call.args.payment_arg = <<>>
    /\ \E start \in QueryArgs \ {None}, end \in QueryArgs \ {None} :
          /\ Truthy(start) /\ Truthy(end)
          /\ InRange(call.args.date, start, end)
          /\ \E r \in Range(ExpensesBefore) : ~InRange(r.date, start, end)

\* C2 as stated: for every pair (start, end) of texts, get_expenses returns
\* exactly the stored expenses with start <= date <= end.
GetExpensesExactRangeEveryPair ==
    (call.op = "get_expenses" /\ call.args[1] # None /\ call.args[2] # None) =>
        /\ Range(df) = {r \in Range(Expenses) :
                            InRange(r.date, call.args[1], call.args[2])}
        /\ Len(df) = Cardinality(Range(df))

\* C2, amended: for every pair (start, end) of non-empty texts,
\* get_expenses returns exactly the stored expenses with
\* start <= date <= end, each once.
GetExpensesExactRange ==
    (call.op = "get_expenses" /\ Truthy(call.args[1]) /\ Truthy(call.args[2])) =>
        /\ Range(df) = {r \in Range(Expenses) :
                            InRange(r.date, call.args[1], call.args[2])}
        /\ Len(df) = Cardinality(Range(df))

\* A filtered query returned a record dated on its end bound and left out a
\* stored record.
GetExpensesExactRangeReached ==
    /\ call.op = "get_expenses"
    /\ Truthy(call.args[1]) /\ Truthy(call.args[2])
    /\ \E r \in Range(df) : r.date = call.args[2]
    /\ Range(df) # Range(Expenses)

\* The date filter of a query: applied when both bounds are non-empty texts.
Matching(start, end) ==
    {r \in Range(Expenses) :
        (Truthy(start) /\ Truthy(end)) => InRange(r.date, start, end)}

RECURSIVE SumOf(_)
SumOf(rs) ==
    IF rs = {} THEN 0
    ELSE LET r == CHOOSE x \in rs : TRUE IN r.amount + SumOf(rs \ {r})

\* C3: get_category_totals returns one row per distinct category with a
\* matching expense and no other row, each total is the sum of the amounts
\* of the category's matching expenses, and totals do not increase along the
\* rows.
CategoryTotalsExact ==
    call.op = "get_category_totals" =>
        LET m == Matching(call.args[1], call.args[2]) IN
        /\ {df[i].category : i \in 1..Len(df)} = {r.category : r \in m}
        /\ Len(df) = Cardinality({r.category : r \in m})
        /\ \A i \in 1..Len(df) :
              df[i].total = SumOf({r \in m : r.category = df[i].category})
        /\ \A i \in 1..(Len(df) - 1) : df[i].total >= df[i + 1].total

\* A query returned two categories with different totals.
CategoryTotalsExactReached ==
    /\ call.op = "get_category_totals"
    /\ Len(df) = 2
    /\ df[1].total > df[2].total

\* C9: init_database leaves the three tables in place and every stored
\* expense, income and budget as it was.
InitDatabaseKeepsRecords ==
    call.op = "init_database" =>
        /\ DOMAIN db = TableNames
        /\ \A t \in TableNames : db[t] = call.before[t]

\* init_database ran on a store that holds expenses.
InitDatabaseKeepsRecordsReached ==
    /\ call.op = "init_database"
    /\ Len(ExpensesBefore) >= 2

\* C10: whatever the operation, every expense record that existed before it
\* is still there, in its place and with all its fields; the queries leave
\* the store as it was.
LedgerAppendOnly ==
    /\ Len(Expenses) >= Len(ExpensesBefore)
    /\ \A i \in 1..Len(ExpensesBefore) : Expenses[i] = ExpensesBefore[i]
    /\ call.op \in {"get_expenses", "get_category_totals"} => db = call.before

\* A second expense was added at a later time than the first.
LedgerAppendOnlyReached ==
    /\ call.op = "add_expense"
    /\ Len(Expenses) = 2
    /\ Expenses[1].created_at < Expenses[2].created_at

(***************************************************************************)
(* Properties of the categorizer                                           *)
(***************************************************************************)
\* The prediction of categorize(m, description) fails, or there is no model.
PredictionFails(m, description) ==
    \/ ~m.pipeline
    \/ description = None
    \/ m.table[Lower(description)].raises

\* C5: categorize returns a category for every model and every description,
\* never raising, and returns 'Miscellaneous' when there is no model or the
\* prediction fails.
CategorizeNeverRaises ==
    ret.op = "categorize" =>
        /\ ~ret.result.raised
        /\ ret.result.value \in Categories
        /\ PredictionFails(ret.model, ret.arg) =>
              ret.result.value = "Miscellaneous"

\* categorize was called on a model whose prediction raises for the text.
CategorizeNeverRaisesReached ==
    /\ ret.op = "categorize"
    /\ ret.model.pipeline
    /\ ret.arg = <<"A">>
    /\ ret.model.table[<<"a">>].raises
    /\ ~ret.model.table[<<"A">>].raises
    /\ ret.result = Returns("Miscellaneous")

\* C7: when the model predicts p with confidence c for the lowercased
\* description, categorize returns p if c > 0.3 and 'Miscellaneous' if
\* c <= 0.3.
CategorizeThreshold ==
    (ret.op = "categorize" /\ ~PredictionFails(ret.model, ret.arg)) =>
        LET out == ret.model.table[Lower(ret.arg)] IN
        /\ out.conf > 300 => ret.result = Returns(out.label)
        /\ out.conf <= 300 => ret.result = Returns("Miscellaneous")

\* categorize was called with an upper-case text for which the model's
\* confidence is exactly 0.3 once lowercased, and above 0.3 as written.
CategorizeThresholdReached ==
    /\ ret.op = "categorize"
    /\ ret.model.pipeline
    /\ ret.arg = <<"A">>
    /\ ret.model.table[<<"a">>] = Predicts("Travel", 300)
    /\ ret.model.table[<<"A">>] = Predicts("Travel", 301)
    /\ ret.result = Returns("Miscellaneous")

\* C6: constructing the categorizer leaves a model set, whatever the file
\* holds and whatever becomes of the save: the object of a loadable file, or
\* else the model fitted to the bundled examples, which a successful save
\* writes to the file; while the program runs the model stays the same.
CategorizerTrained ==
    /\ ret.op = "__init__" =>
          /\ model # NoModel
          /\ ret.file.state = "pickle" =>
                model = ret.file.object /\ ret.written = ret.file
          /\ ret.file.state # "pickle" =>
                /\ model = Bundled
                /\ ret.save = "saved" => ret.written = Pickled(Bundled)
                /\ ret.save = "open fails" => ret.written = ret.file
    /\ ret.op = "categorize" => model # NoModel /\ model = ret.model

(***************************************************************************)
(* Properties of the form handlers                                         *)
(***************************************************************************)
\* The text is a number: digits with at most one point among them, after a
\* minus sign or not.
NumericText(text) ==
    \E sign \in {<<>>, <<"-">>} :
        LET rest == SubSeq(text, Len(sign) + 1, Len(text)) IN
        /\ Len(text) >= Len(sign)
        /\ SubSeq(text, 1, Len(sign)) = sign
        /\ \A i \in 1..Len(rest) : rest[i] \in {"0", "1", "2", "5", "."}
        /\ Cardinality({i \in 1..Len(rest) : rest[i] = "."}) <= 1
        /\ \E i \in 1..Len(rest) : rest[i] # "."

\* A required field of the Add Expense form is empty.
FieldMissing(f) ==
    \/ f.date_var = <<>>
    \/ f.amount_var = <<>>
    \/ f.description_var = <<>>
    \/ f.category_var = ""

\* C8: when a required field is empty or the amount is no number, the Add
\* Expense handler reports an error, does not call the store's add_expense
\* and leaves the store as it was; the store is written only when the four
\* fields are filled and the amount is a number.
GuiAddExpenseValidates ==
    event.handler = "add_expense" =>
        /\ (FieldMissing(event.form) \/ ~NumericText(event.form.amount_var)) =>
              /\ message.kind = "error"
              /\ ~event.added
              /\ db = event.db
        /\ (event.added \/ db # event.db) =>
              /\ ~FieldMissing(event.form)
              /\ NumericText(event.form.amount_var)

\* Add Expense was pressed with every field filled but a category, on a
\* store that holds an expense already.
GuiAddExpenseValidatesReached ==
    /\ event.handler = "add_expense"
    /\ event.form.category_var = ""
    /\ event.form.date_var # <<>>
    /\ event.form.description_var # <<>>
    /\ event.form.amount_var = <<"1">>
    /\ Len(db["expenses"]) >= 1
    /\ message = showerror("Error", <<"Please fill all required fields">>)

\* C4: once a budget was set twice or more for a category, the store holds
\* exactly one budget row for the category, with the amount set last.
SetBudgetTwiceKeepsLast ==
    \A c \in BudgetCategoryTexts :
        LET calls == SelectSeq(budget_calls, LAMBDA b : b.category = c)
            rows == SelectSeq(db["budgets"], LAMBDA r : r.category = c)
        IN  Len(calls) >= 2 =>
                /\ Len(rows) = 1
                /\ rows[1].budget_amount = calls[Len(calls)].amount

(***************************************************************************)
(* Properties of the order and of the optional filter                      *)
(***************************************************************************)
\* C11: in the data frame get_expenses returns, with the date filter or
\* without it, the date of each record is greater than or equal to the date
\* of the record after it.
GetExpensesDateDescending ==
    call.op = "get_expenses" =>
        \A i \in 1..(Len(df) - 1) :
            /\ LexLE(df[i + 1].date, df[i].date)
            /\ \/ df[i].date = df[i + 1].date
               \/ ~LexLE(df[i].date, df[i + 1].date)

\* A filtered query returned two records of different dates, the one
\* inserted later first.
GetExpensesDateDescendingReached ==
    /\ call.op = "get_expenses"
    /\ call.args = <<D1, D2>>
    /\ Len(df) = 2
    /\ df[1].date = D2 /\ df[2].date = D12
    /\ df[1].id > df[2].id

\* The bound is not supplied: None, or the empty text.
NotSupplied(x) == x = None \/ x = <<>>

\* The totals of all the stored expenses, by category.
TotalOfAll(c) == SumOf({r \in Range(Expenses) : r.category = c})

\* C12: get_expenses and get_category_totals apply the date filter when
\* both bounds are supplied and non-empty; when either bound is None or the
\* empty text the other one is ignored, and the result covers every stored
\* expense.
FilterOnlyWithBothBounds ==
    LET start == call.args[1]
        end == call.args[2]
        selected == IF NotSupplied(start) \/ NotSupplied(end)
                    THEN Range(Expenses)
                    ELSE {r \in Range(Expenses) : InRange(r.date, start, end)}
    IN  /\ call.op = "get_expenses" =>
              Range(df) = selected /\ Len(df) = Cardinality(selected)
        /\ call.op = "get_category_totals" =>
              /\ {df[i].category : i \in 1..Len(df)} =
                     {r.category : r \in selected}
              /\ \A i \in 1..Len(df) :
                    df[i].total =
                        SumOf({r \in selected : r.category = df[i].category})

\* get_category_totals was called with an empty start and an end bound that
\* lies before a stored expense, and that expense is in the totals.
FilterOnlyWithBothBoundsReached ==
    /\ call.op = "get_category_totals"
    /\ call.args = <<<<>>, D1>>
    /\ \E r \in Range(Expenses) : r.date = D2 /\ r.category = "Travel"
    /\ \E r \in Range(Expenses) : r.date = D1 /\ r.category = "Travel"
    /\ \E i \in 1..Len(df) :
          df[i].category = "Travel" /\ df[i].total = TotalOfAll("Travel")

====
